---- MODULE Spec2Model ----
(***************************************************************************)
(* State-machine model of news_aggregator.py: the NewsAggregator pipeline  *)
(* (fetch_news_articles -> generate_news_summary -> save_summary) and the  *)
(* scheduler loop of main().                                               *)
(*                                                                         *)
(* Text values (titles, keys, ...) are modelled as triples <<what, c, j>>: *)
(* article j of category c has title <<"title", c, j>>, and so on.  The    *)
(* two mock articles are category 0.  A JSON key that is absent (dict.get  *)
(* gives None, dict[...] raises KeyError) or an unset environment variable *)
(* is Missing; the empty string is Empty.                                  *)
(***************************************************************************)
EXTENDS Integers, Sequences, FiniteSets, TLC

VARIABLES
    env,            \* process environment: NEWS_API_KEY, OPENAI_API_KEY
    news_api_key,   \* self.news_api_key  (Unset before construction)
    openai_api_key, \* self.openai_api_key
    mainState,      \* where main() is: INIT, STARTUP, WAITING, CONFIG_ERROR, STOPPED, CRASHED
    pc,             \* where run_news_update / fetch_news_articles is
    raised,         \* the exception that left run_news_update, "none" if none
    limit,          \* argument of the fetch_news_articles call
    catIdx,         \* index into self.categories of the request being issued
    articles,       \* local list `articles` of fetch_news_articles
    fetched,        \* value returned by fetch_news_articles
    summary,        \* value returned by generate_news_summary
    written,        \* text handed to f.write in this cycle (NoText if none)
    lastLog,        \* the most recent line logged or printed
    fault,          \* the last failure of an external call in this cycle
    runs,           \* number of pipeline runs started
    newsRequests,   \* requests.get calls issued in this cycle
    llmCalls        \* chat.completions.create calls issued in this cycle

vars == <<env, news_api_key, openai_api_key, mainState, pc, raised, limit, catIdx,
          articles, fetched, summary, written, lastLog, fault, runs,
          newsRequests, llmCalls>>

-----------------------------------------------------------------------------
\* Bounds of the model.
MaxUpstream == 7    \* most raw articles in one upstream response
MaxLimit == 4       \* largest limit of a direct fetch_news_articles(limit) call
MaxRuns == 2        \* pipeline runs per behaviour (the startup run included)

\* Program constants.
DefaultLimit == 20
FallbackMax == 10

Min(a, b) == IF a <= b THEN a ELSE b
Max(a, b) == IF a >= b THEN a ELSE b

-----------------------------------------------------------------------------
\* Values.
Missing == <<"missing", 0, 0>>
Empty == <<"empty", 0, 0>>
Unset == <<"unset", 0, 0>>
Key == <<"key", 0, 0>>
EnvValues == {Missing, Empty, Key}

\* Python truthiness of an optional string: None and "" are falsy.
FalsyNoneOnly(v) == v = Missing
Falsy(v) == v \in {Missing, Empty}

categories == <<"business", "technology", "consumer goods">>

NewsArticle(t, d, u, p, s) ==
    [title |-> t, description |-> d, url |-> u, published_at |-> p, source |-> s]

\* _get_mock_articles: "Tech Giants Report Strong Q3 Earnings" (TechNews) and
\* "Global Markets Show Positive Momentum" (FinanceDaily).
get_mock_articles ==
    << NewsArticle(<<"title", 0, 1>>, <<"description", 0, 1>>, <<"url", 0, 1>>,
                   <<"publishedAt", 0, 1>>, <<"source", 0, 1>>),
       NewsArticle(<<"title", 0, 2>>, <<"description", 0, 2>>, <<"url", 0, 2>>,
                   <<"publishedAt", 0, 2>>, <<"source", 0, 2>>) >>

\* Python's s[:n].
PySliceNone(s, n) == s
PySlice(s, n) ==
    IF n >= 0 THEN SubSeq(s, 1, Min(n, Len(s)))
    ELSE SubSeq(s, 1, Max(0, Len(s) + n))

-----------------------------------------------------------------------------
\* The upstream news API: what one top-headlines request can come back with.
\* pageSize (limit // 3, line 74) is only a request parameter: the size of the
\* response is the server's choice, so it is not tied to limit here.
GoodRaw(c, j) ==
    [title |-> <<"title", c, j>>, description |-> <<"description", c, j>>,
     url |-> <<"url", c, j>>, publishedAt |-> <<"publishedAt", c, j>>,
     source |-> <<"source", c, j>>]

Defects == {"none", "first_no_title", "last_empty_description", "last_no_url"}

RawList(c, n, d) ==
    [j \in 1..n |->
        IF d = "first_no_title" /\ j = 1 THEN [GoodRaw(c, j) EXCEPT !.title = Missing]
        ELSE IF d = "last_empty_description" /\ j = n
             THEN [GoodRaw(c, j) EXCEPT !.description = Empty]
        ELSE IF d = "last_no_url" /\ j = n THEN [GoodRaw(c, j) EXCEPT !.url = Missing]
        ELSE GoodRaw(c, j)]

RequestFailures == {"transport_error", "http_error"}

Responses(c) ==
    {[kind |-> k, articles |-> <<>>] : k \in RequestFailures}
    \cup {[kind |-> "ok", articles |-> RawList(c, n, d)] :
              n \in 1..MaxUpstream, d \in Defects}
    \cup {[kind |-> "ok", articles |-> <<>>]}

-----------------------------------------------------------------------------
\* fetch_news_articles, lines 82-90: the filter-and-append loop over one response.
RECURSIVE AppendValid(_, _)
AppendValid(acc, raws) ==
    IF raws = <<>> THEN [exc |-> "none", articles |-> acc]
    ELSE LET a == Head(raws) IN
         IF ~Falsy(a.title) /\ ~Falsy(a.description)
         THEN IF Missing \in {a.url, a.publishedAt, a.source}
              THEN [exc |-> "KeyError", articles |-> acc]
              ELSE AppendValid(
                       Append(acc, NewsArticle(a.title, a.description, a.url,
                                               a.publishedAt, a.source)),
                       Tail(raws))
         ELSE AppendValid(acc, Tail(raws))

\* One iteration of the category loop, lines 68-92.
CategoryStep(acc, resp) ==
    IF resp.kind \in RequestFailures
    THEN [exc |-> "RequestException", articles |-> acc]
    ELSE AppendValid(acc, resp.articles)

\* What the except-branch returns, lines 94-96.
FailureResultPartial(acc, n) == PySlice(acc, n)
FailureResult(acc, n) == get_mock_articles

\* The normal return, line 98.
LiveResult(acc, n) == PySlice(acc, n)

-----------------------------------------------------------------------------
\* Summaries.
NoText == [kind |-> "none", entries |-> <<>>]
\* "No news articles available at this time."
NoNewsMsg == [kind |-> "no_articles", entries |-> <<>>]
\* response.choices[0].message.content.strip()
LLMSummary == [kind |-> "llm", entries |-> <<>>]

LLMFailures == {"api_error", "bad_response"}
LLMOutcomes == {"text"} \cup LLMFailures

FallbackEntry(i, a) ==
    [n |-> i, title |-> a.title, description |-> a.description, source |-> a.source]

generate_fallback_summary_all(arts) ==
    [kind |-> "fallback", entries |-> [i \in 1..Len(arts) |-> FallbackEntry(i, arts[i])]]
generate_fallback_summary(arts) ==
    LET top == PySlice(arts, FallbackMax) IN
    [kind |-> "fallback", entries |-> [i \in 1..Len(top) |-> FallbackEntry(i, top[i])]]

generate_news_summary_nocheck(arts, llm) ==
    IF llm = "text"
    THEN [summary |-> LLMSummary, called |-> TRUE, log |-> "", fault |-> "none"]
    ELSE [summary |-> generate_fallback_summary(arts), called |-> TRUE,
          log |-> "Error generating summary with OpenAI", fault |-> llm]
generate_news_summary(arts, llm) ==
    IF arts = <<>>
    THEN [summary |-> NoNewsMsg, called |-> FALSE, log |-> "", fault |-> "none"]
    ELSE IF llm = "text"
    THEN [summary |-> LLMSummary, called |-> TRUE, log |-> "", fault |-> "none"]
    ELSE [summary |-> generate_fallback_summary(arts), called |-> TRUE,
          log |-> "Error generating summary with OpenAI", fault |-> llm]

IOFailures == {"open_error", "write_error"}
IOOutcomes == {"ok"} \cup IOFailures

save_summary_uncaught(text, io) ==
    IF io = "ok"
    THEN [exc |-> "none", log |-> "Summary saved", written |-> text, fault |-> "none"]
    ELSE [exc |-> "IOError", log |-> "",
          written |-> IF io = "write_error" THEN text ELSE NoText, fault |-> io]
save_summary(text, io) ==
    IF io = "ok"
    THEN [exc |-> "none", log |-> "Summary saved", written |-> text, fault |-> "none"]
    ELSE [exc |-> "none", log |-> "Error saving summary",
          written |-> IF io = "write_error" THEN text ELSE NoText, fault |-> io]

-----------------------------------------------------------------------------
\* NewsAggregator.__init__
NewsAggregatorInit(e) ==
    IF Falsy(e.OPENAI_API_KEY)
    THEN [exc |-> "ValueError", news_api_key |-> e.NEWS_API_KEY, openai_api_key |-> Unset]
    ELSE [exc |-> "none", news_api_key |-> e.NEWS_API_KEY,
          openai_api_key |-> e.OPENAI_API_KEY]

\* main(), line 219
MissingLLMCredentialNoneOnly(e) == e.OPENAI_API_KEY = Missing
MissingLLMCredential(e) == Falsy(e.OPENAI_API_KEY)

Active == raised = "none" /\ mainState \in {"STARTUP", "WAITING", "DIRECT_CALL"}

\* An exception nobody catches: it leaves run_news_update and, in main(), ends
\* the process.  pc stays where the exception was raised.
Uncaught(e) ==
    /\ raised' = e
    /\ mainState' = IF mainState = "DIRECT_CALL" THEN mainState ELSE "CRASHED"

\* The call of run_news_update up to the call of fetch_news_articles (lines 196-199).
BeginRun ==
    /\ runs' = runs + 1
    /\ pc' = "fetch_enter"
    /\ limit' = DefaultLimit
    /\ lastLog' = "Starting news update..."
    /\ catIdx' = 1
    /\ articles' = <<>>
    /\ fetched' = <<>>
    /\ summary' = NoText
    /\ written' = NoText
    /\ fault' = "none"
    /\ newsRequests' = 0
    /\ llmCalls' = 0

Init ==
    /\ env \in [NEWS_API_KEY : EnvValues, OPENAI_API_KEY : EnvValues]
    /\ news_api_key = Unset
    /\ openai_api_key = Unset
    /\ mainState = "INIT"
    /\ pc = "idle"
    /\ raised = "none"
    /\ limit = DefaultLimit
    /\ catIdx = 1
    /\ articles = <<>>
    /\ fetched = <<>>
    /\ summary = NoText
    /\ written = NoText
    /\ lastLog = "none"
    /\ fault = "none"
    /\ runs = 0
    /\ newsRequests = 0
    /\ llmCalls = 0

\* main(), lines 215-237: the credential check, construction, and the call of
\* the startup run.
Main ==
    /\ mainState = "INIT"
    /\ IF MissingLLMCredential(env)
       THEN /\ mainState' = "CONFIG_ERROR"
            /\ lastLog' = "Error: Please set your OPENAI_API_KEY environment variable"
            /\ UNCHANGED <<env, news_api_key, openai_api_key, pc, raised, limit, catIdx,
                           articles, fetched, summary, written, fault, runs,
                           newsRequests, llmCalls>>
       ELSE LET o == NewsAggregatorInit(env) IN
            IF o.exc # "none"
            THEN /\ Uncaught(o.exc)
                 /\ UNCHANGED <<env, news_api_key, openai_api_key, pc, limit, catIdx,
                                articles, fetched, summary, written, lastLog, fault,
                                runs, newsRequests, llmCalls>>
            ELSE /\ news_api_key' = o.news_api_key
                 /\ openai_api_key' = o.openai_api_key
                 /\ mainState' = "STARTUP"
                 /\ BeginRun
                 /\ UNCHANGED <<env, raised>>

\* fetch_news_articles, lines 59-66.
FetchEnter ==
    /\ Active
    /\ pc = "fetch_enter"
    /\ articles' = <<>>
    /\ catIdx' = 1
    /\ IF Falsy(news_api_key)
       THEN /\ fetched' = get_mock_articles
            /\ pc' = "fetch_done"
       ELSE /\ pc' = "fetch_loop"
            /\ UNCHANGED fetched
    /\ UNCHANGED <<env, news_api_key, openai_api_key, mainState, raised, limit, summary,
                   written, lastLog, fault, runs, newsRequests, llmCalls>>

\* fetch_news_articles, lines 68-98: one request of the category loop, and the
\* return when it was the last one or when it failed.
FetchCategory(resp) ==
    /\ Active
    /\ pc = "fetch_loop"
    /\ newsRequests' = newsRequests + 1
    /\ LET r == CategoryStep(articles, resp) IN
       /\ articles' = r.articles
       /\ CASE r.exc = "RequestException" ->
                 /\ lastLog' = "Error fetching news"
                 /\ fault' = resp.kind
                 /\ fetched' = FailureResult(r.articles, limit)
                 /\ pc' = "fetch_done"
                 /\ UNCHANGED <<catIdx, raised, mainState>>
            [] r.exc = "KeyError" ->
                 /\ Uncaught("KeyError")
                 /\ UNCHANGED <<lastLog, fault, fetched, pc, catIdx>>
            [] OTHER ->
                 /\ IF catIdx = Len(categories)
                    THEN /\ fetched' = LiveResult(r.articles, limit)
                         /\ pc' = "fetch_done"
                         /\ UNCHANGED catIdx
                    ELSE /\ catIdx' = catIdx + 1
                         /\ UNCHANGED <<fetched, pc>>
                 /\ UNCHANGED <<lastLog, fault, raised, mainState>>
    /\ UNCHANGED <<env, news_api_key, openai_api_key, limit, summary, written, runs,
                   llmCalls>>

\* run_news_update, lines 200-203.
Summarize(llm) ==
    /\ Active
    /\ mainState # "DIRECT_CALL"
    /\ pc = "fetch_done"
    /\ LET r == generate_news_summary(fetched, llm) IN
       /\ summary' = r.summary
       /\ llmCalls' = llmCalls + (IF r.called THEN 1 ELSE 0)
       /\ lastLog' = IF r.log # "" THEN r.log ELSE "Fetched articles"
       /\ fault' = IF r.fault # "none" THEN r.fault ELSE fault
    /\ pc' = "save"
    /\ UNCHANGED <<env, news_api_key, openai_api_key, mainState, raised, limit, catIdx,
                   articles, fetched, written, runs, newsRequests>>

\* run_news_update, lines 206-211.
Save(io) ==
    /\ Active
    /\ pc = "save"
    /\ LET r == save_summary(summary, io) IN
       /\ written' = r.written
       /\ fault' = IF r.fault # "none" THEN r.fault ELSE fault
       /\ IF r.exc # "none"
          THEN /\ Uncaught(r.exc)
               /\ UNCHANGED <<pc, lastLog>>
          ELSE /\ pc' = "finish"
               /\ lastLog' = r.log
               /\ UNCHANGED <<raised, mainState>>
    /\ UNCHANGED <<env, news_api_key, openai_api_key, limit, catIdx, articles, fetched,
                   summary, runs, newsRequests, llmCalls>>

\* run_news_update, line 213, and the return into main(): after the startup run
\* main() enters the polling loop; after a scheduled run it is back in it.
FinishRun ==
    /\ Active
    /\ pc = "finish"
    /\ lastLog' = "News update completed"
    /\ pc' = "idle"
    /\ mainState' = "WAITING"
    /\ UNCHANGED <<env, news_api_key, openai_api_key, raised, limit, catIdx, articles,
                   fetched, summary, written, fault, runs, newsRequests, llmCalls>>

\* main(), line 242: schedule.run_pending() finds the job due and calls it.
RunPending ==
    /\ Active
    /\ mainState = "WAITING"
    /\ pc = "idle"
    /\ runs < MaxRuns
    /\ BeginRun
    /\ UNCHANGED <<env, news_api_key, openai_api_key, mainState, raised>>

\* main(), lines 242-243: nothing is due; sleep a minute.
Sleep ==
    /\ Active
    /\ mainState = "WAITING"
    /\ pc = "idle"
    /\ UNCHANGED vars

\* The operator's interrupt (SIGINT): Python raises KeyboardInterrupt in the main
\* thread at the point it has reached.  No except clause of the pipeline catches
\* it (RequestException, Exception and IOError do not cover it), so it leaves
\* run_news_update; main() catches it only inside the try of lines 240-247.
InterruptBetweenTicks ==
    /\ Active
    /\ mainState = "WAITING"
    /\ pc = "idle"
    /\ raised' = "KeyboardInterrupt"
    /\ mainState' = "STOPPED"
    /\ lastLog' = "News Aggregator stopped by user"
    /\ UNCHANGED <<env, news_api_key, openai_api_key, pc, limit, catIdx, articles,
                   fetched, summary, written, fault, runs, newsRequests, llmCalls>>
Interrupt ==
    /\ Active
    /\ mainState \in {"STARTUP", "WAITING"}
    /\ raised' = "KeyboardInterrupt"
    /\ IF mainState = "WAITING"
       THEN /\ mainState' = "STOPPED"
            /\ lastLog' = "News Aggregator stopped by user"
       ELSE /\ mainState' = "CRASHED"
            /\ UNCHANGED lastLog
    /\ UNCHANGED <<env, news_api_key, openai_api_key, pc, limit, catIdx, articles,
                   fetched, summary, written, fault, runs, newsRequests, llmCalls>>

Next ==
    \/ Main
    \/ FetchEnter
    \/ \E resp \in Responses(catIdx) : FetchCategory(resp)
    \/ \E llm \in LLMOutcomes : Summarize(llm)
    \/ \E io \in IOOutcomes : Save(io)
    \/ FinishRun
    \/ RunPending
    \/ Sleep
    \/ Interrupt

Spec == Init /\ [][Next]_vars

-----------------------------------------------------------------------------
\* fetch_news_articles(limit) called directly on a constructed aggregator.
FetchInit ==
    /\ env \in [NEWS_API_KEY : EnvValues, OPENAI_API_KEY : {Key}]
    /\ news_api_key = env.NEWS_API_KEY
    /\ openai_api_key = env.OPENAI_API_KEY
    /\ mainState = "DIRECT_CALL"
    /\ pc = "fetch_enter"
    /\ raised = "none"
    /\ limit \in 0..MaxLimit
    /\ catIdx = 1
    /\ articles = <<>>
    /\ fetched = <<>>
    /\ summary = NoText
    /\ written = NoText
    /\ lastLog = "none"
    /\ fault = "none"
    /\ runs = 0
    /\ newsRequests = 0
    /\ llmCalls = 0

FetchNext ==
    \/ FetchEnter
    \/ \E resp \in Responses(catIdx) : FetchCategory(resp)

FetchSpec == FetchInit /\ [][FetchNext]_vars

-----------------------------------------------------------------------------
\* C1 (as stated): fetch_news_articles(limit) never returns more than limit
\* entries, on every path.
C1_Original == pc = "fetch_done" => Len(fetched) <= limit

\* C1 (amended): on the live path the result has at most limit entries; on the
\* missing-credential and transport-failure paths the result is the fixed
\* two-entry mock sequence, whatever limit is.
C1_Amended ==
    pc = "fetch_done" =>
        IF news_api_key \in {Missing, Empty} \/ fault \in RequestFailures
        THEN fetched = get_mock_articles /\ Len(fetched) = 2
        ELSE Len(fetched) <= limit

\* A live result that was cut down to a positive limit.
C1_Witness ==
    /\ pc = "fetch_done"
    /\ news_api_key = Key
    /\ fault = "none"
    /\ limit >= 1
    /\ Len(articles) > limit
    /\ Len(fetched) = limit

\* C2 (as stated): no exception other than the operator's interrupt ever leaves
\* run_news_update, whatever the news API, the LLM call and the file write do.
C2_Original == raised \in {"none", "KeyboardInterrupt"}

\* C3: when a category request fails, fetch_news_articles returns exactly the
\* mock sequence, nothing collected before, and the failed request is the last
\* request of the call.
C3_AllOrNothing ==
    (pc = "fetch_done" /\ fault \in RequestFailures) =>
        /\ fetched = get_mock_articles
        /\ newsRequests = catIdx
        /\ catIdx \in 1..Len(categories)

\* The last category fails after articles of earlier categories were collected.
C3_Witness ==
    /\ pc = "fetch_done"
    /\ fault \in RequestFailures
    /\ catIdx = Len(categories)
    /\ Len(articles) >= 2
    /\ fetched = get_mock_articles

\* C4: with the news credential missing (unset or empty), no request is issued
\* and every fetch returns exactly the mock sequence, in every cycle.
C4_MockMode ==
    news_api_key \in {Missing, Empty} =>
        /\ newsRequests = 0
        /\ (pc \in {"fetch_done", "save", "finish"} \/ (pc = "idle" /\ runs > 0)) =>
              fetched = get_mock_articles

\* The fetch of a second cycle has returned in mock mode.
C4_Witness ==
    /\ news_api_key \in {Missing, Empty}
    /\ runs >= 2
    /\ pc = "fetch_done"
    /\ fetched = get_mock_articles

\* C5: when the LLM call fails, the summary is the fallback: at most 10 entries,
\* entry i numbered i and carrying the title, description and source of the
\* i-th fetched article.
C5_Fallback ==
    (pc = "save" /\ fault \in LLMFailures) =>
        /\ fetched # <<>>
        /\ summary.kind = "fallback"
        /\ Len(summary.entries) <= 10
        /\ Len(summary.entries) = Min(Len(fetched), 10)
        /\ \A i \in 1..Len(summary.entries) :
              /\ summary.entries[i].n = i
              /\ summary.entries[i].title = fetched[i].title
              /\ summary.entries[i].description = fetched[i].description
              /\ summary.entries[i].source = fetched[i].source

\* The LLM call failed on more than 10 articles.
C5_Witness ==
    /\ pc = "save"
    /\ fault \in LLMFailures
    /\ Len(fetched) > 10
    /\ Len(summary.entries) = 10

\* C6: a failed file write leaves no exception behind: save_summary logs the
\* error and returns, run_news_update can finish, and main() stays in (or
\* enters) the polling loop.
C6_SaveNeverRaises ==
    fault \in IOFailures =>
        /\ raised \in {"none", "KeyboardInterrupt"}
        /\ raised = "none" =>
              \/ /\ pc = "finish"
                 /\ lastLog = "Error saving summary"
                 /\ mainState \in {"STARTUP", "WAITING"}
                 /\ ENABLED FinishRun
              \/ /\ pc = "idle"
                 /\ mainState = "WAITING"

\* A scheduled run whose save failed has finished and main() polls again.
C6_Witness ==
    /\ fault \in IOFailures
    /\ raised = "none"
    /\ runs >= 2
    /\ pc = "idle"
    /\ mainState = "WAITING"
    /\ lastLog = "News update completed"

\* C7: with OPENAI_API_KEY missing (unset or empty) main() reports the
\* configuration error and nothing runs: no pipeline run, no request, no LLM
\* call, no file write, no polling loop.
C7_ConfigError ==
    env.OPENAI_API_KEY \in {Missing, Empty} =>
        /\ mainState \in {"INIT", "CONFIG_ERROR"}
        /\ mainState = "CONFIG_ERROR" =>
              lastLog = "Error: Please set your OPENAI_API_KEY environment variable"
        /\ runs = 0
        /\ pc = "idle"
        /\ newsRequests = 0
        /\ llmCalls = 0
        /\ written = NoText

\* main() has returned on the configuration error.
C7_Witness == mainState = "CONFIG_ERROR" /\ env.OPENAI_API_KEY \in {Missing, Empty}

\* C8: an empty fetched sequence is summarized as the fixed "no articles"
\* text without an LLM call, and that text is what the file write gets.
C8_EmptySummary ==
    ((pc \in {"save", "finish"} \/ (pc = "idle" /\ runs > 0)) /\ fetched = <<>>) =>
        /\ summary = NoNewsMsg
        /\ llmCalls = 0
        /\ written \in {NoText, NoNewsMsg}
        /\ (pc \in {"finish", "idle"} /\ fault # "open_error") => written = NoNewsMsg

\* A cycle that fetched nothing has written the message.
C8_Witness ==
    /\ pc = "finish"
    /\ fetched = <<>>
    /\ newsRequests = Len(categories)
    /\ summary = NoNewsMsg
    /\ written = NoNewsMsg

\* C9 (as stated): once the scheduler has started, the process ends only on an
\* interrupt, and then it ends cleanly, the stop message logged.
C9_Original ==
    mainState \in {"STOPPED", "CRASHED"} =>
        /\ raised = "KeyboardInterrupt"
        /\ mainState = "STOPPED"
        /\ lastLog = "News Aggregator stopped by user"

\* C10 (as stated): an interrupt stops the polling loop only between ticks and
\* never cuts a pipeline run short: when main() has caught the interrupt and
\* stopped, no run is left unfinished.
C10_Original == mainState = "STOPPED" => pc = "idle"

\* C10 (amended): an interrupt can be delivered at every point after startup,
\* a run in progress included, and it ends the process where the run stands:
\* the steps the run had not reached (LLM call, file write) are never performed.
C10_Amended ==
    /\ (mainState \in {"STARTUP", "WAITING"} /\ raised = "none") => ENABLED Interrupt
    /\ raised = "KeyboardInterrupt" =>
          /\ mainState \in {"STOPPED", "CRASHED"}
          /\ pc \in {"fetch_enter", "fetch_loop", "fetch_done"} =>
                llmCalls = 0 /\ summary = NoText /\ written = NoText
          /\ pc = "save" => written = NoText

\* A scheduled run was interrupted after summarizing: nothing was written.
C10_Witness ==
    /\ raised = "KeyboardInterrupt"
    /\ mainState = "STOPPED"
    /\ runs >= 2
    /\ pc = "save"
    /\ summary # NoText
    /\ written = NoText

====
